---- MODULE Spec2Model ----
(***************************************************************************)
(* A state-machine model of scrape_mrgdatashare.py: the main routine with  *)
(* its Datasets, FilePatterns, Scraper, Throttle, DatasetHandler, Zipper   *)
(* and URLHandler objects.  The remote server, the clock and the local     *)
(* file system are the environment.  Strings are TLA+ strings; a response  *)
(* body is the sequence of chunks that iter_content yields.                *)
(***************************************************************************)
EXTENDS Integers, Sequences, FiniteSets, TLC

VARIABLES
    pc,                 \* position of the main routine
    parse_args,         \* the parsed command line
    datasets_file,      \* lines of the datasets file
    file_patterns_file, \* lines of the file patterns file
    datasets,           \* the Datasets object
    file_patterns,      \* the FilePatterns object
    scraper,            \* the Scraper object and its login session
    throttle,           \* the global Throttle object
    now,                \* the wall clock, in seconds
    ticks,              \* number of times the environment moved the clock
    di,                 \* index of the dataset the outer loop is at
    fi,                 \* index of the file pattern the inner loop is at
    dataset_handler,    \* the DatasetHandler of the current dataset
    zipper,             \* the Zipper of the current dataset
    url_handler,        \* the URLHandler of the current download
    result,             \* the streamed response being consumed
    file_handle,        \* the local file handle of the current scrape
    fs,                 \* the local file system
    error,              \* the exception that ended the run, "" if none
    net,                \* every request sent so far, in order
    sleeps,             \* every time.sleep so far, in order
    history             \* what happened to each download, in order

vars == <<pc, parse_args, datasets_file, file_patterns_file, datasets,
          file_patterns, scraper, throttle, now, ticks, di, fi,
          dataset_handler, zipper, url_handler, result, file_handle, fs,
          error, net, sleeps, history>>

-----------------------------------------------------------------------------
(* Module-level names of the script.                                       *)

login_url == "https://mrgdatashare.robots.ox.ac.uk/"
base_download_url == "http://mrgdatashare.robots.ox.ac.uk:80/download/?filename=datasets/"
good_status_code == 200
failed_login == "Please try again or email for support"
tmp_dir == "/tmp"
file_extension == ".tar"
wildcard == "*"
not_found_marker == "File not found."
dataset_name_length == 19
SecondsPerDay == 86400

\* The value of an object that has not been constructed yet.
None == [none |-> TRUE]

-----------------------------------------------------------------------------
(* Bounds of the model.                                                    *)

MaxTicks == 2

-----------------------------------------------------------------------------
(* String helpers, computed as Python computes them.                       *)

Min(a, b) == IF a < b THEN a ELSE b

\* s[:n]
Prefix(s, n) == SubSeq(s, 1, Min(n, Len(s)))

\* sub in s
Contains(sub, s) ==
    \E i \in 0..(Len(s) - Len(sub)) : SubSeq(s, i + 1, i + Len(sub)) = sub

\* s.rstrip('\n')
RECURSIVE RStripNewline(_)
RStripNewline(s) ==
    IF Len(s) > 0 /\ SubSeq(s, Len(s), Len(s)) = "\n"
    THEN RStripNewline(SubSeq(s, 1, Len(s) - 1))
    ELSE s

\* s.split('/')[-1]
LastSegment(s) ==
    IF \E i \in 1..Len(s) : SubSeq(s, i, i) = "/"
    THEN LET i == CHOOSE k \in 1..Len(s) :
                     /\ SubSeq(s, k, k) = "/"
                     /\ \A j \in (k + 1)..Len(s) : SubSeq(s, j, j) # "/"
         IN  SubSeq(s, i + 1, Len(s))
    ELSE s

\* os.path.join(a, b)
PathJoin(a, b) ==
    IF Len(b) > 0 /\ SubSeq(b, 1, 1) = "/" THEN b
    ELSE IF Len(a) = 0 \/ SubSeq(a, Len(a), Len(a)) = "/" THEN a \o b
    ELSE a \o "/" \o b

\* Python truthiness of an option value: None and "" (modelled alike), 0 and
\* False are falsy.
TruthyStr(v) == v # ""
TruthyInt(v) == v # 0
TruthyBool(v) == v

\* os.path.abspath(p), for a path without "." and ".." segments
cwd == "/home/user"
AbsPath(p) == IF Len(p) > 0 /\ SubSeq(p, 1, 1) = "/" THEN p ELSE PathJoin(cwd, p)

InSeq(x, s) == \E i \in 1..Len(s) : s[i] = x

-----------------------------------------------------------------------------
(* The inputs a run is started with.                                       *)

Catalogs ==
    { <<"2014-05-06-12-54-54,cam,lidar\n", "2014-05-14-13-46-12,cam\n">>,
      <<"site-01,cam,lidar\n">> }

PatternFiles == { <<"cam\n", "lidar\n">> }

BaseArgs ==
    [ dataset            |-> wildcard,
      datasets_file      |-> "/data/datasets.csv",
      file_pattern       |-> wildcard,
      file_patterns_file |-> "/data/file_patterns.txt",
      username           |-> "user",
      password           |-> "secret",
      dry_run            |-> FALSE,
      downloads_dir      |-> "/dl",
      overwrite          |-> TRUE,
      period_duration    |-> 1,
      chunk_length       |-> 1024,
      chunks_per_period  |-> 2 ]

DatasetOptions == {wildcard, "2014-05-14-13-46-12", "site-01", ""}
FilePatternOptions == {wildcard, "cam", "radar", ""}

\* One option left out (or given an empty value) at a time.
MissingOptions ==
    { [BaseArgs EXCEPT !.datasets_file = ""],
      [BaseArgs EXCEPT !.file_patterns_file = ""],
      [BaseArgs EXCEPT !.username = ""],
      [BaseArgs EXCEPT !.password = ""],
      [BaseArgs EXCEPT !.downloads_dir = ""],
      [BaseArgs EXCEPT !.overwrite = FALSE],
      [BaseArgs EXCEPT !.period_duration = 0],
      [BaseArgs EXCEPT !.chunk_length = 0],
      [BaseArgs EXCEPT !.chunks_per_period = 0] }

\* A throttle window of two days.
LongPeriodOptions == { [BaseArgs EXCEPT !.period_duration = 2 * SecondsPerDay] }

ArgSets ==
    { [BaseArgs EXCEPT !.dataset = d, !.file_pattern = f, !.dry_run = r] :
        d \in DatasetOptions, f \in FilePatternOptions, r \in BOOLEAN }
    \cup MissingOptions
    \cup LongPeriodOptions

\* The file system before the run: the download root and the temporary
\* directory exist; a dataset directory of an earlier run may exist.
EmptyFiles == [p \in {} |-> <<>>]
InitialFileSystems ==
    { [dirs |-> {"/dl", tmp_dir}, files |-> EmptyFiles],
      [dirs |-> {"/dl", tmp_dir, "/dl/2014-05-06-12-54-54"},
       files |-> ("/dl/2014-05-06-12-54-54/old.txt" :> <<"old">>)] }

Init ==
    /\ pc = "Datasets"
    /\ parse_args \in ArgSets
    /\ datasets_file \in Catalogs
    /\ file_patterns_file \in PatternFiles
    /\ datasets = None
    /\ file_patterns = None
    /\ scraper = None
    /\ throttle = None
    /\ now = 0
    /\ ticks = 0
    /\ di = 1
    /\ fi = 1
    /\ dataset_handler = None
    /\ zipper = None
    /\ url_handler = None
    /\ result = None
    /\ file_handle = None
    /\ fs \in InitialFileSystems
    /\ error = ""
    /\ net = <<>>
    /\ sleeps = <<>>
    /\ history = <<>>

\* An uncaught exception ends the run.
Raise(e) == pc' = "raised" /\ error' = e

-----------------------------------------------------------------------------
(* Datasets                                                                *)

\* Datasets.get_datasets
get_datasets(lines) ==
    [i \in 1..Len(lines) |-> Prefix(RStripNewline(lines[i]), dataset_name_length)]

\* A validate that accepts every dataset.
Datasets_validate_never_raises(dataset, known) == FALSE

\* Datasets.validate: TRUE when it raises
Datasets_validate_raises(dataset, known) ==
    dataset # wildcard /\ ~InSeq(dataset, known)

\* Datasets.check
Datasets_check(dataset) ==
    datasets.dataset = dataset \/ datasets.dataset = wildcard

\* datasets = Datasets(parse_args)
SetUpDatasets ==
    /\ pc = "Datasets"
    /\ IF ~TruthyStr(parse_args.dataset)
       THEN Raise("IOError: Please specify option dataset.") /\ UNCHANGED datasets
       ELSE IF ~TruthyStr(parse_args.datasets_file)
       THEN Raise("IOError: Please specify option datasets_file.") /\ UNCHANGED datasets
       ELSE LET known == get_datasets(datasets_file) IN
            IF Datasets_validate_raises(parse_args.dataset, known)
            THEN Raise("ValueError: Please specify a valid dataset.")
                 /\ UNCHANGED datasets
            ELSE /\ datasets' = [dataset |-> parse_args.dataset,
                                 datasets_file |-> AbsPath(parse_args.datasets_file),
                                 datasets |-> known]
                 /\ pc' = "FilePatterns"
                 /\ UNCHANGED error
    /\ UNCHANGED <<parse_args, datasets_file, file_patterns_file, file_patterns,
                   scraper, throttle, now, ticks, di, fi, dataset_handler, zipper,
                   url_handler, result, file_handle, fs, net, sleeps, history>>

-----------------------------------------------------------------------------
(* FilePatterns                                                            *)

\* FilePatterns.get_file_patterns
get_file_patterns(lines) ==
    [i \in 1..Len(lines) |-> RStripNewline(lines[i])]

\* FilePatterns.validate: TRUE when it raises
FilePatterns_validate_raises(file_pattern, known) ==
    file_pattern # wildcard /\ ~InSeq(file_pattern, known)

\* FilePatterns.check
FilePatterns_check(file_pattern) ==
    file_patterns.file_pattern = file_pattern \/ file_patterns.file_pattern = wildcard

\* file_patterns = FilePatterns(parse_args)
SetUpFilePatterns ==
    /\ pc = "FilePatterns"
    /\ IF ~TruthyStr(parse_args.file_pattern)
       THEN Raise("IOError: Please specify option file_pattern.")
            /\ UNCHANGED file_patterns
       ELSE IF ~TruthyStr(parse_args.file_patterns_file)
       THEN Raise("IOError: Please specify option file_patterns_file.")
            /\ UNCHANGED file_patterns
       ELSE LET known == get_file_patterns(file_patterns_file) IN
            IF FilePatterns_validate_raises(parse_args.file_pattern, known)
            THEN Raise("ValueError: Please specify a valid file_pattern.")
                 /\ UNCHANGED file_patterns
            ELSE /\ file_patterns' =
                        [file_pattern |-> parse_args.file_pattern,
                         file_patterns_file |-> AbsPath(parse_args.file_patterns_file),
                         file_patterns |-> known]
                 /\ pc' = "Scraper"
                 /\ UNCHANGED error
    /\ UNCHANGED <<parse_args, datasets_file, file_patterns_file, datasets,
                   scraper, throttle, now, ticks, di, fi, dataset_handler, zipper,
                   url_handler, result, file_handle, fs, net, sleeps, history>>

-----------------------------------------------------------------------------
(* Scraper: credentials and login                                          *)

\* scraper = Scraper(parse_args)
SetUpScraper ==
    /\ pc = "Scraper"
    /\ IF ~TruthyStr(parse_args.username)
       THEN Raise("IOError: Please specify option username.") /\ UNCHANGED scraper
       ELSE IF ~TruthyStr(parse_args.password)
       THEN Raise("IOError: Please specify option password.") /\ UNCHANGED scraper
       ELSE /\ scraper' = [username |-> parse_args.username,
                           password |-> parse_args.password,
                           dry_run |-> parse_args.dry_run,
                           csrf_middleware_token |-> "",
                           login_response |-> None,
                           logged_in |-> FALSE]
            /\ pc' = "login"
            /\ UNCHANGED error
    /\ UNCHANGED <<parse_args, datasets_file, file_patterns_file, datasets,
                   file_patterns, throttle, now, ticks, di, fi, dataset_handler,
                   zipper, url_handler, result, file_handle, fs, net, sleeps,
                   history>>

\* The sets of csrfmiddlewaretoken values the login page may carry.
LoginPageTokens == { {}, {"tokenA"}, {"tokenA", "tokenB"} }

\* Scraper.get_csrf_middleware_token: GET of the login page; the first element
\* of list(set(...)) is any element of the set, and indexing an empty list raises.
GetCsrfMiddlewareToken ==
    /\ pc = "login"
    /\ net' = Append(net, [method |-> "GET", url |-> login_url, di |-> 0, fi |-> 0])
    /\ \E tokens \in LoginPageTokens :
         IF tokens = {}
         THEN Raise("IndexError: list index out of range") /\ UNCHANGED scraper
         ELSE \E t \in tokens :
                /\ scraper' = [scraper EXCEPT !.csrf_middleware_token = t]
                /\ pc' = "post"
                /\ UNCHANGED error
    /\ UNCHANGED <<parse_args, datasets_file, file_patterns_file, datasets,
                   file_patterns, throttle, now, ticks, di, fi, dataset_handler,
                   zipper, url_handler, result, file_handle, fs, sleeps, history>>

\* The responses the server may give to the login POST.
LoginResponses ==
    { [status_code |-> 200, text |-> "<html>Welcome</html>"],
      [status_code |-> 200,
       text |-> "<html>Login failed. Please try again or email for support.</html>"],
      [status_code |-> 403, text |-> "<html>Forbidden</html>"] }

\* A post that looks at the status code only.
post_raises_on_status_only(response) == response.status_code # good_status_code

\* Scraper.post: TRUE when the login response makes it raise
post_raises(response) ==
    response.status_code # good_status_code \/ Contains(failed_login, response.text)

\* Scraper.get_payload and Scraper.post
Post ==
    /\ pc = "post"
    /\ net' = Append(net, [method |-> "POST", url |-> login_url, di |-> 0, fi |-> 0])
    /\ \E response \in LoginResponses :
         IF post_raises(response)
         THEN /\ Raise("ValueError: Login failed, check username and password.")
              /\ scraper' = [scraper EXCEPT !.login_response = response]
         ELSE /\ scraper' = [scraper EXCEPT !.login_response = response,
                                            !.logged_in = TRUE]
              /\ pc' = "Throttle"
              /\ UNCHANGED error
    /\ UNCHANGED <<parse_args, datasets_file, file_patterns_file, datasets,
                   file_patterns, throttle, now, ticks, di, fi, dataset_handler,
                   zipper, url_handler, result, file_handle, fs, sleeps, history>>

-----------------------------------------------------------------------------
(* Throttle                                                                *)

\* throttle = Throttle(parse_args)
StartThrottle ==
    /\ pc = "Throttle"
    /\ IF ~TruthyInt(parse_args.period_duration)
       THEN Raise("IOError: Please specify option period_duration.")
            /\ UNCHANGED throttle
       ELSE IF ~TruthyInt(parse_args.chunk_length)
       THEN Raise("IOError: Please specify option chunk_length.")
            /\ UNCHANGED throttle
       ELSE IF ~TruthyInt(parse_args.chunks_per_period)
       THEN Raise("IOError: Please specify option chunks_per_period.")
            /\ UNCHANGED throttle
       ELSE /\ throttle' = [period_duration |-> parse_args.period_duration,
                            chunk_length |-> parse_args.chunk_length,
                            chunks_per_period |-> parse_args.chunks_per_period,
                            num_chunks_in_period |-> 0,
                            period |-> now]
            /\ pc' = "for_dataset"
            /\ UNCHANGED error
    /\ UNCHANGED <<parse_args, datasets_file, file_patterns_file, datasets,
                   file_patterns, scraper, now, ticks, di, fi, dataset_handler,
                   zipper, url_handler, result, file_handle, fs, net, sleeps,
                   history>>

\* A time left that grows with the time elapsed.
get_period_seconds_adds_elapsed ==
    throttle.period_duration + (now - throttle.period)

\* Throttle.get_period_seconds: timedelta.seconds leaves out whole days
get_period_seconds ==
    throttle.period_duration - ((now - throttle.period) % SecondsPerDay)

\* A reset that moves the window and keeps the count.
reset_keeps_count == [throttle EXCEPT !.period = now]

\* Throttle.reset
reset == [throttle EXCEPT !.num_chunks_in_period = 0, !.period = now]

\* Throttle.count
count == [throttle EXCEPT !.num_chunks_in_period = @ + 1]

\* Throttle.wait: TRUE when it pauses
wait_pauses(period_seconds) ==
    /\ ~(period_seconds < 0)
    /\ throttle.num_chunks_in_period > throttle.chunks_per_period

\* throttle.wait(), at the head of the loop over the datasets; the loop ends
\* when the list is exhausted.  time.sleep of a negative time raises.
ThrottleWait ==
    /\ pc = "for_dataset"
    /\ IF di > Len(datasets.datasets)
       THEN /\ pc' = "finished"
            /\ UNCHANGED <<throttle, now, sleeps, error>>
       ELSE LET period_seconds == get_period_seconds IN
            IF period_seconds < 0
            THEN /\ throttle' = reset
                 /\ pc' = "check_dataset"
                 /\ UNCHANGED <<now, sleeps, error>>
            ELSE IF wait_pauses(period_seconds)
            THEN /\ sleeps' = Append(sleeps, [seconds |-> period_seconds,
                                              period |-> throttle.period,
                                              di |-> di])
                 /\ now' = now + period_seconds
                 /\ pc' = "check_dataset"
                 /\ UNCHANGED <<throttle, error>>
            ELSE /\ pc' = "check_dataset"
                 /\ UNCHANGED <<throttle, now, sleeps, error>>
    /\ UNCHANGED <<parse_args, datasets_file, file_patterns_file, datasets,
                   file_patterns, scraper, ticks, di, fi, dataset_handler,
                   zipper, url_handler, result, file_handle, fs, net, history>>

\* The clock moves on: by a second, or by a day.  The clock is read by the
\* Throttle only, so its steps before the Throttle is constructed are left out.
ClockSteps == {1, SecondsPerDay}

TimePasses ==
    /\ pc \notin {"finished", "raised"}
    /\ throttle # None
    /\ ticks < MaxTicks
    /\ \E d \in ClockSteps : now' = now + d
    /\ ticks' = ticks + 1
    /\ UNCHANGED <<pc, parse_args, datasets_file, file_patterns_file, datasets,
                   file_patterns, scraper, throttle, di, fi, dataset_handler,
                   zipper, url_handler, result, file_handle, fs, error, net,
                   sleeps, history>>

-----------------------------------------------------------------------------
(* The local file system                                                   *)

StartsWith(s, prefix) ==
    Len(prefix) <= Len(s) /\ SubSeq(s, 1, Len(prefix)) = prefix

\* os.path.dirname(p)
Dirname(p) == SubSeq(p, 1, Len(p) - Len(LastSegment(p)) - 1)

\* p is path d or lies below it
Under(p, d) == p = d \/ StartsWith(p, d \o "/")

Restrict(f, S) == [x \in S |-> f[x]]

\* os.path.exists(p)
Exists(f, p) == p \in f.dirs \/ p \in DOMAIN f.files

\* os.mkdir(d), on a path that does not exist and whose parent does
MkDir(f, d) == [f EXCEPT !.dirs = @ \cup {d}]

\* shutil.rmtree(d)
RmTree(f, d) ==
    [dirs |-> {p \in f.dirs : ~Under(p, d)},
     files |-> Restrict(f.files, {p \in DOMAIN f.files : ~Under(p, d)})]

\* the path below dst that p has below src
Moved(p, src, dst) == dst \o SubSeq(p, Len(src) + 1, Len(p))

\* shutil.copytree(src, dst), on an existing src and a dst that does not exist
CopyTree(f, src, dst) ==
    LET ds == {p \in f.dirs : Under(p, src)}
        fl == {p \in DOMAIN f.files : Under(p, src)}
    IN  [dirs |-> f.dirs \cup {Moved(p, src, dst) : p \in ds},
         files |-> [q \in DOMAIN f.files \cup {Moved(p, src, dst) : p \in fl} |->
                      IF \E p \in fl : Moved(p, src, dst) = q
                      THEN f.files[CHOOSE p \in fl : Moved(p, src, dst) = q]
                      ELSE f.files[q]]]

\* open(p, 'wb'): the file is created or truncated
OpenForWriting(f, p) ==
    [f EXCEPT !.files = [q \in DOMAIN f.files \cup {p} |->
                            IF q = p THEN <<>> ELSE f.files[q]]]

\* file_handle.write(chunk)
WriteChunk(f, p, chunk) == [f EXCEPT !.files[p] = Append(@, chunk)]

\* A remove that leaves the file where it is.
Remove_keeps_file(f, p) == f

\* os.remove(p)
Remove(f, p) == [f EXCEPT !.files = Restrict(@, DOMAIN @ \ {p})]

-----------------------------------------------------------------------------
(* DatasetHandler and Zipper                                               *)

\* DatasetHandler.__init__, once both options are given
DatasetHandler(dataset) ==
    LET downloads_dir == AbsPath(parse_args.downloads_dir)
        dataset_dir == PathJoin(downloads_dir, dataset)
    IN  [downloads_dir |-> downloads_dir,
         overwrite |-> parse_args.overwrite,
         dataset |-> dataset,
         dataset_dir |-> dataset_dir,
         tar_dir |-> PathJoin(dataset_dir, dataset),
         tmp_dir |-> PathJoin(tmp_dir, dataset)]

\* DatasetHandler.check: TRUE when it raises
DatasetHandler_check_raises(h, f) == ~h.overwrite /\ Exists(f, h.dataset_dir)

\* A check that creates the directory and removes nothing.
DatasetHandler_check_keeps_content(h, f) == MkDir(f, h.dataset_dir)

\* DatasetHandler.check: the file system it leaves
DatasetHandler_check(h, f) ==
    IF Exists(f, h.dataset_dir)
    THEN MkDir(RmTree(f, h.dataset_dir), h.dataset_dir)
    ELSE MkDir(f, h.dataset_dir)

\* The body of the loop over the datasets, up to the loop over the file
\* patterns: datasets.check, DatasetHandler(...), dataset_handler.check(),
\* Zipper(...).
SetUpDataset ==
    /\ pc = "check_dataset"
    /\ LET dataset == datasets.datasets[di] IN
       IF ~Datasets_check(dataset)
       THEN /\ di' = di + 1
            /\ pc' = "for_dataset"
            /\ UNCHANGED <<fi, dataset_handler, zipper, fs, error>>
       ELSE IF ~TruthyStr(parse_args.downloads_dir)
       THEN /\ Raise("IOError: Please specify option downloads_dir.")
            /\ UNCHANGED <<di, fi, dataset_handler, zipper, fs>>
       ELSE IF ~TruthyBool(parse_args.overwrite)
       THEN /\ Raise("IOError: Please specify option overwrite.")
            /\ UNCHANGED <<di, fi, dataset_handler, zipper, fs>>
       ELSE LET h == DatasetHandler(dataset) IN
            IF ~scraper.dry_run /\ DatasetHandler_check_raises(h, fs)
            THEN /\ Raise("ValueError: dataset cannot be overwritten.")
                 /\ dataset_handler' = h
                 /\ UNCHANGED <<di, fi, zipper, fs>>
            ELSE IF ~scraper.dry_run /\ Dirname(h.dataset_dir) \notin fs.dirs
            THEN /\ Raise("FileNotFoundError: os.mkdir")
                 /\ dataset_handler' = h
                 /\ UNCHANGED <<di, fi, zipper, fs>>
            ELSE /\ dataset_handler' = h
                 /\ fs' = IF scraper.dry_run THEN fs ELSE DatasetHandler_check(h, fs)
                 /\ zipper' = [num_successful_unzipped |-> 0]
                 /\ fi' = 1
                 /\ pc' = "for_file_pattern"
                 /\ UNCHANGED <<di, error>>
    /\ UNCHANGED <<parse_args, datasets_file, file_patterns_file, datasets,
                   file_patterns, scraper, throttle, now, ticks, url_handler,
                   result, file_handle, net, sleeps, history>>

-----------------------------------------------------------------------------
(* URLHandler                                                              *)

\* URLHandler.get_file_url
get_file_url(file_pattern, h) ==
    base_download_url \o h.dataset \o "/" \o h.dataset \o "_" \o file_pattern
        \o file_extension

\* URLHandler.get_local_file_path
get_local_file_path(file_url, h) == PathJoin(h.dataset_dir, LastSegment(file_url))

\* URLHandler.__init__
URLHandler(h, file_pattern) ==
    LET file_url == get_file_url(file_pattern, h)
    IN  [file_pattern |-> file_pattern,
         file_url |-> file_url,
         local_file_path |-> get_local_file_path(file_url, h)]

\* The head of the loop over the file patterns: file_patterns.check and
\* URLHandler(...); when the list is exhausted the dataset is tidied up
\* (not in a dry run) and the outer loop goes on.
IterateFilePatterns ==
    /\ pc = "for_file_pattern"
    /\ IF fi > Len(file_patterns.file_patterns)
       THEN /\ IF scraper.dry_run
               THEN pc' = "for_dataset" /\ di' = di + 1
               ELSE pc' = "tidy_up" /\ di' = di
            /\ UNCHANGED <<fi, url_handler>>
       ELSE LET file_pattern == file_patterns.file_patterns[fi] IN
            IF ~FilePatterns_check(file_pattern)
            THEN /\ fi' = fi + 1
                 /\ UNCHANGED <<pc, di, url_handler>>
            ELSE /\ url_handler' = URLHandler(dataset_handler, file_pattern)
                 /\ pc' = "scrape"
                 /\ UNCHANGED <<di, fi>>
    /\ UNCHANGED <<parse_args, datasets_file, file_patterns_file, datasets,
                   file_patterns, scraper, throttle, now, ticks, dataset_handler,
                   zipper, result, file_handle, fs, error, net, sleeps, history>>

-----------------------------------------------------------------------------
(* Scraper.scrape                                                          *)

\* What the server may answer to a download request: a status, a content
\* type, the chunks iter_content yields, and whether the connection is
\* dropped after them.
ServerResponses ==
    { [status_code |-> 200, content_type |-> "application/x-tar",
       chunks |-> <<"TAR1", "", "TAR2">>, dropped |-> FALSE],
      [status_code |-> 200, content_type |-> "application/x-tar",
       chunks |-> <<"TARX">>, dropped |-> FALSE],
      [status_code |-> 200, content_type |-> "application/x-tar",
       chunks |-> <<"TAR1">>, dropped |-> TRUE],
      [status_code |-> 200, content_type |-> "text/plain",
       chunks |-> <<"ab", "File not found.", "cd">>, dropped |-> FALSE],
      [status_code |-> 200, content_type |-> "text/html",
       chunks |-> <<"<html>Error: File not found.</html>">>, dropped |-> FALSE],
      [status_code |-> 200, content_type |-> "text/html",
       chunks |-> <<"<html>login</html>">>, dropped |-> FALSE],
      [status_code |-> 404, content_type |-> "text/html",
       chunks |-> <<"<html>404</html>">>, dropped |-> FALSE] }

\* An entry of the history: what happened, to which dataset and file pattern,
\* with which outcome, and the chunks of the response it is about.
Event(e, ok, chunks) ==
    [event |-> e, ok |-> ok, di |-> di, fi |-> fi, chunks |-> chunks]

\* A main loop that goes on to the next file pattern without unzipping.
Return_without_unzip(file_was_found, seen, response) ==
    /\ history' = history \o seen \o
                    <<Event("scrape", file_was_found, response.chunks)>>
    /\ pc' = "for_file_pattern"
    /\ fi' = fi + 1

\* A main loop that unzips whatever scrape returned.
Return_unzips_whatever_was_fetched(file_was_found, seen, response) ==
    /\ history' = history \o seen \o
                    <<Event("scrape", file_was_found, response.chunks)>>
    /\ IF ~scraper.dry_run
       THEN pc' = "unzip" /\ fi' = fi
       ELSE pc' = "for_file_pattern" /\ fi' = fi + 1

\* scrape returns file_was_found; the main loop unzips when it is true and
\* the run is not a dry run, and goes on to the next file pattern otherwise.
Return(file_was_found, seen, response) ==
    /\ history' = history \o seen \o
                    <<Event("scrape", file_was_found, response.chunks)>>
    /\ IF file_was_found /\ ~scraper.dry_run
       THEN pc' = "unzip" /\ fi' = fi
       ELSE pc' = "for_file_pattern" /\ fi' = fi + 1

\* A scrape that downloads in a dry run too.
scrape_downloads_always == TRUE

\* scrape: TRUE when the file is downloaded (if not self.dry_run)
scrape_downloads == ~scraper.dry_run

\* A status check that lets every response through.
scrape_raises_never(response) == FALSE

\* scrape: TRUE when the status check raises
scrape_raises(response) == response.status_code # good_status_code

\* scrape, up to the loop over the chunks: the request, the status check
\* and open(local_file_path, 'wb').
ScrapeRequest ==
    /\ pc = "scrape"
    /\ net' = Append(net, [method |-> "GET", url |-> url_handler.file_url,
                           di |-> di, fi |-> fi])
    /\ LET request == <<Event("request", TRUE, <<>>)>> IN
       \/ /\ Raise("ConnectionError")
          /\ history' = history \o request
                            \o <<Event("transport_failure", FALSE, <<>>)>>
          /\ UNCHANGED <<fi, result, file_handle, fs>>
       \/ \E response \in ServerResponses :
            /\ result' = [response |-> response, pos |-> 1]
            /\ IF scrape_raises(response)
               THEN /\ Raise("ValueError: bad file_url")
                    /\ history' = history \o request
                    /\ UNCHANGED <<fi, file_handle, fs>>
               ELSE IF ~scrape_downloads
               THEN /\ Return(TRUE, request, response)
                    /\ UNCHANGED <<file_handle, fs, error>>
               ELSE IF Dirname(url_handler.local_file_path) \notin fs.dirs
               THEN /\ Raise("FileNotFoundError: open")
                    /\ history' = history \o request
                    /\ UNCHANGED <<fi, file_handle, fs>>
               ELSE /\ fs' = OpenForWriting(fs, url_handler.local_file_path)
                    /\ file_handle' = [path |-> url_handler.local_file_path,
                                       closed |-> FALSE]
                    /\ history' = history \o request
                    /\ pc' = "iter_content"
                    /\ UNCHANGED <<fi, error>>
    /\ UNCHANGED <<parse_args, datasets_file, file_patterns_file, datasets,
                   file_patterns, scraper, throttle, now, ticks, di,
                   dataset_handler, zipper, url_handler, sleeps>>

\* A test for another marker than the one the server sends.
is_not_found_wrong_marker(chunk) == Contains("File Not Found.", chunk)

\* b"File not found." in chunk
is_not_found(chunk) == Contains(not_found_marker, chunk)

\* if chunk: file_handle.write(chunk)
write_if_chunk(f, path, chunk) ==
    IF chunk # "" THEN WriteChunk(f, path, chunk) ELSE f

\* scrape is left without file_handle.close(): the handle is closed only if
\* and when the interpreter finalises the object, which the code does not
\* determine.
Abandon(handle) == {[handle EXCEPT !.closed = c] : c \in BOOLEAN}

\* One turn of the loop over result.iter_content, or its end: the stream is
\* exhausted (the file is closed and scrape returns True) or the connection
\* is dropped (iter_content raises).  A chunk written is taken to reach the
\* file (the write buffer is flushed at the latest when the interpreter exits).
IterContent ==
    /\ pc = "iter_content"
    /\ IF result.pos > Len(result.response.chunks)
       THEN IF result.response.dropped
            THEN /\ Raise("ConnectionError")
                 /\ history' = Append(history,
                                       Event("transport_failure", FALSE, <<>>))
                 /\ file_handle' \in Abandon(file_handle)
                 /\ UNCHANGED <<fi, result, throttle, fs>>
            ELSE /\ file_handle' = [file_handle EXCEPT !.closed = TRUE]
                 /\ Return(TRUE, <<>>, result.response)
                 /\ UNCHANGED <<result, throttle, fs, error>>
       ELSE LET chunk == result.response.chunks[result.pos] IN
            IF is_not_found(chunk)
            THEN /\ Return(FALSE, <<>>, result.response)
                 /\ file_handle' \in Abandon(file_handle)
                 /\ UNCHANGED <<result, throttle, fs, error>>
            ELSE /\ throttle' = count
                 /\ fs' = write_if_chunk(fs, file_handle.path, chunk)
                 /\ result' = [result EXCEPT !.pos = @ + 1]
                 /\ UNCHANGED <<pc, fi, file_handle, error, history>>
    /\ UNCHANGED <<parse_args, datasets_file, file_patterns_file, datasets,
                   file_patterns, scraper, now, ticks, di, dataset_handler,
                   zipper, url_handler, net, sleeps>>

-----------------------------------------------------------------------------
(* Zipper                                                                  *)

\* tarfile.open(path, "r:") succeeds on these contents and raises ReadError on
\* every other.
IsTarArchive(content) == content \in { <<"TAR1", "TAR2">>, <<"TARX">> }

\* The members of an archive, relative to the extraction directory: the
\* archive of a sensor log holds <dataset>/<file pattern>/...; TARX is an
\* archive without the dataset's directory.
Members(content, h, u) ==
    IF content = <<"TAR1", "TAR2">>
    THEN [dirs |-> {h.dataset, h.dataset \o "/" \o u.file_pattern},
          files |-> {h.dataset \o "/" \o u.file_pattern \o "/data.bin"}]
    ELSE [dirs |-> {"other"}, files |-> {"other/data.bin"}]

\* tar.extractall(path=dataset_dir)
ExtractAll(f, content, h, u) ==
    LET m == Members(content, h, u)
        new == {PathJoin(h.dataset_dir, p) : p \in m.files}
    IN  [dirs |-> f.dirs \cup {PathJoin(h.dataset_dir, p) : p \in m.dirs},
         files |-> [q \in DOMAIN f.files \cup new |->
                      IF q \in new THEN <<"data">> ELSE f.files[q]]]

\* Zipper.unzip
Unzip ==
    /\ pc = "unzip"
    /\ LET path == url_handler.local_file_path
           content == fs.files[path]
       IN  IF IsTarArchive(content)
           THEN /\ fs' = Remove(ExtractAll(fs, content, dataset_handler, url_handler),
                                path)
                /\ zipper' = [zipper EXCEPT !.num_successful_unzipped = @ + 1]
                /\ history' = Append(history, Event("unzip", TRUE, content))
           ELSE /\ fs' = Remove(fs, path)
                /\ history' = Append(history, Event("unzip", FALSE, content))
                /\ UNCHANGED zipper
    /\ fi' = fi + 1
    /\ pc' = "for_file_pattern"
    /\ UNCHANGED <<parse_args, datasets_file, file_patterns_file, datasets,
                   file_patterns, scraper, throttle, now, ticks, di,
                   dataset_handler, url_handler, result, file_handle, error, net,
                   sleeps>>

\* Zipper.tidy_up: the file system it leaves, when no copytree raises
tidy_up(f, h) ==
    IF zipper.num_successful_unzipped # 0
    THEN LET f1 == CopyTree(f, h.tar_dir, h.tmp_dir)
             f2 == RmTree(f1, h.dataset_dir)
             f3 == CopyTree(f2, h.tmp_dir, h.dataset_dir)
         IN  RmTree(f3, h.tmp_dir)
    ELSE RmTree(f, h.dataset_dir)

\* zipper.tidy_up(), at the end of the body of the loop over the datasets
TidyUp ==
    /\ pc = "tidy_up"
    /\ LET h == dataset_handler IN
       IF zipper.num_successful_unzipped # 0 /\ ~Exists(fs, h.tar_dir)
       THEN /\ Raise("FileNotFoundError: shutil.copytree")
            /\ UNCHANGED <<di, fs, history>>
       ELSE IF zipper.num_successful_unzipped # 0 /\ Exists(fs, h.tmp_dir)
       THEN /\ Raise("FileExistsError: shutil.copytree")
            /\ UNCHANGED <<di, fs, history>>
       ELSE /\ fs' = tidy_up(fs, h)
            /\ history' = Append(history, Event("tidy_up", TRUE, <<>>))
            /\ di' = di + 1
            /\ pc' = "for_dataset"
            /\ UNCHANGED error
    /\ UNCHANGED <<parse_args, datasets_file, file_patterns_file, datasets,
                   file_patterns, scraper, throttle, now, ticks, fi,
                   dataset_handler, zipper, url_handler, result, file_handle, net,
                   sleeps>>

-----------------------------------------------------------------------------
(* The main routine                                                        *)

Next ==
    \/ SetUpDatasets
    \/ SetUpFilePatterns
    \/ SetUpScraper
    \/ GetCsrfMiddlewareToken
    \/ Post
    \/ StartThrottle
    \/ ThrottleWait
    \/ SetUpDataset
    \/ IterateFilePatterns
    \/ ScrapeRequest
    \/ IterContent
    \/ Unzip
    \/ TidyUp
    \/ TimePasses

Spec == Init /\ [][Next]_vars

\* A step of the script itself: every action but the passing of time.
Step ==
    \/ SetUpDatasets
    \/ SetUpFilePatterns
    \/ SetUpScraper
    \/ GetCsrfMiddlewareToken
    \/ Post
    \/ StartThrottle
    \/ ThrottleWait
    \/ SetUpDataset
    \/ IterateFilePatterns
    \/ ScrapeRequest
    \/ IterContent
    \/ Unzip
    \/ TidyUp

\* Runs that download one file pattern of two datasets, with a throttle
\* window of a second or of two days.
ThrottledInit ==
    /\ pc = "Datasets"
    /\ parse_args \in {[a EXCEPT !.file_pattern = "cam"] :
                          a \in {BaseArgs} \cup LongPeriodOptions}
    /\ datasets_file \in {c \in Catalogs : Len(c) = 2}
    /\ file_patterns_file \in PatternFiles
    /\ datasets = None
    /\ file_patterns = None
    /\ scraper = None
    /\ throttle = None
    /\ now = 0
    /\ ticks = 0
    /\ di = 1
    /\ fi = 1
    /\ dataset_handler = None
    /\ zipper = None
    /\ url_handler = None
    /\ result = None
    /\ file_handle = None
    /\ fs \in {f \in InitialFileSystems : f.files = EmptyFiles}
    /\ error = ""
    /\ net = <<>>
    /\ sleeps = <<>>
    /\ history = <<>>

\* The script is one sequential thread: while a statement is left to run, it
\* runs.  Every call the script blocks in (a request, a read of a finite
\* stream, time.sleep) returns or raises.
ThrottledSpec == ThrottledInit /\ [][Next]_vars /\ WF_vars(Step)

-----------------------------------------------------------------------------
(* Vocabulary of the properties                                            *)

RunEnded == pc \in {"finished", "raised"}

Range(q) == {q[i] : i \in DOMAIN q}

\* The download requests sent so far (the login requests have di = 0).
DownloadRequests == {i \in DOMAIN net : net[i].di > 0}

\* The history entries of one kind.
Events(kind) == {i \in DOMAIN history : history[i].event = kind}

\* The throttle has paused the caller in the current window.
PausedInWindow == \E i \in DOMAIN sleeps : sleeps[i].period = throttle.period

\* A chunk equal to the not-found marker is in the stream.
HasMarkerChunk(chunks) == \E i \in DOMAIN chunks : chunks[i] = not_found_marker

\* The chunks that follow the first chunk equal to the marker.
AfterMarker(chunks) ==
    IF HasMarkerChunk(chunks)
    THEN LET m == CHOOSE i \in DOMAIN chunks :
                    /\ chunks[i] = not_found_marker
                    /\ \A j \in 1..(i - 1) : chunks[j] # not_found_marker
         IN  {chunks[j] : j \in (m + 1)..Len(chunks)}
    ELSE {}

\* Every chunk some response carries after its marker chunk.
ChunksAfterMarker == UNION {AfterMarker(r.chunks) : r \in ServerResponses}

\* Every chunk written to some local file.
WrittenChunks == UNION {Range(fs.files[p]) : p \in DOMAIN fs.files}

\* The chunks of the responses that are an HTML page where an archive was
\* expected, and were not recognised as a not-found answer.
HtmlChunks ==
    UNION {Range(r.chunks) :
             r \in {x \in ServerResponses : x.content_type = "text/html"}}

\* line.split(',')[0]: the resource id of a catalog line
ResourceId(line) ==
    LET l == RStripNewline(line) IN
    IF \E i \in 1..Len(l) : SubSeq(l, i, i) = ","
    THEN LET c == CHOOSE i \in 1..Len(l) :
                    /\ SubSeq(l, i, i) = ","
                    /\ \A j \in 1..(i - 1) : SubSeq(l, j, j) # ","
         IN  SubSeq(l, 1, c - 1)
    ELSE l

\* The URL of the archive of a resource id and a variant.
ResourceUrl(id, variant) ==
    base_download_url \o id \o "/" \o id \o "_" \o variant \o file_extension

\* The variant passes the variant filter given on the command line.
PassesVariantFilter(variant) ==
    parse_args.file_pattern = variant \/ parse_args.file_pattern = wildcard

IsConfigurationError(e) == StartsWith(e, "IOError: Please specify option")

-----------------------------------------------------------------------------
(* C1: units_consumed (num_chunks_in_period) never goes above                *)
(* max_units_per_window (chunks_per_period) within a window unless the       *)
(* caller has been paused in that window first.                              *)
C1_QuotaNotExceededBeforePause ==
    throttle # None =>
        (throttle.num_chunks_in_period > throttle.chunks_per_period
            => PausedInWindow)

(* C2, as stated: whenever a fetch has returned for a stream holding a chunk *)
(* equal to the not-found marker, it has returned false, and no chunk that   *)
(* follows the marker is in any local file.                                  *)
C2_MarkerAlwaysGivesFalse ==
    /\ \A i \in Events("scrape") :
          HasMarkerChunk(history[i].chunks) => ~history[i].ok
    /\ WrittenChunks \cap ChunksAfterMarker = {}

(* C2, amended: in a run that is not a dry run, whenever a fetch has         *)
(* returned for a stream (of a response with success status) holding a chunk *)
(* equal to the not-found marker, it has returned false; in a dry run it has *)
(* returned true; and in every run no chunk that follows the marker is in    *)
(* any local file.                                                           *)
C2_MarkerGivesFalseUnlessDryRun ==
    /\ \A i \in Events("scrape") :
          HasMarkerChunk(history[i].chunks) =>
              (history[i].ok <=> parse_args.dry_run)
    /\ WrittenChunks \cap ChunksAfterMarker = {}

C2_Witness ==
    /\ ~parse_args.dry_run
    /\ \E i \in Events("scrape") :
          /\ history[i].chunks = <<"ab", "File not found.", "cd">>
          /\ ~history[i].ok
    /\ "ab" \in WrittenChunks

(* C3: a download that met k transport failures, 0 < k < max_attempts = 3,   *)
(* has been requested again: by the end of the run it has been requested     *)
(* k + 1 times and has returned.                                             *)
C3_TransportFailureIsRetried ==
    RunEnded =>
        \A i \in Events("transport_failure") :
            LET k == Cardinality({j \in Events("transport_failure") :
                                    /\ history[j].di = history[i].di
                                    /\ history[j].fi = history[i].fi})
                requests == {j \in Events("request") :
                               /\ history[j].di = history[i].di
                               /\ history[j].fi = history[i].fi}
            IN  k < 3 =>
                  /\ Cardinality(requests) = k + 1
                  /\ \E j \in Events("scrape") :
                        /\ history[j].di = history[i].di
                        /\ history[j].fi = history[i].fi

(* C4: no chunk of an HTML page sent where an archive was expected is ever   *)
(* written to a local file; the fetch logs in again instead.                 *)
C4_NoHtmlPageWritten == WrittenChunks \cap HtmlChunks = {}

(* C5: every download request is for a resource id of the catalog (the first *)
(* field of the line the loop is at) and a variant that passes the variant   *)
(* filter, at the URL of that resource.                                      *)
C5_RequestsAreForCatalogResources ==
    \A i \in DownloadRequests :
        \E variant \in Range(get_file_patterns(file_patterns_file)) :
            /\ PassesVariantFilter(variant)
            /\ net[i].url = ResourceUrl(ResourceId(datasets_file[net[i].di]), variant)

\* The dataset given on the command line is the resource id of no catalog line.
FilterNamesNoCatalogResource ==
    /\ parse_args.dataset \notin {wildcard, ""}
    /\ \A i \in DOMAIN datasets_file : ResourceId(datasets_file[i]) # parse_args.dataset

\* The dataset given on the command line is none of the dataset names read
\* from the datasets file (the first 19 characters of each line).
FilterNamesNoKnownDataset ==
    /\ parse_args.dataset \notin {wildcard, ""}
    /\ \A i \in DOMAIN datasets_file :
          SubSeq(RStripNewline(datasets_file[i]), 1,
                 Min(19, Len(RStripNewline(datasets_file[i])))) # parse_args.dataset

(* C6, as stated: a run whose resource-id filter names a resource that is    *)
(* not in the catalog ends with no download request, no extraction and no    *)
(* error.                                                                    *)
C6_UnknownFilterRaisesNothing ==
    (FilterNamesNoCatalogResource /\ RunEnded) =>
        /\ error = ""
        /\ DownloadRequests = {}
        /\ Events("unzip") = {}

(* C6, amended: a run whose dataset filter is none of the dataset names read *)
(* from the datasets file ends, as soon as the Datasets object is set up,    *)
(* with the ValueError "Please specify a valid dataset.", having sent no     *)
(* request of any kind and extracted nothing.                                *)
C6_UnknownFilterRaisesValueError ==
    (FilterNamesNoKnownDataset /\ pc # "Datasets") =>
        /\ pc = "raised"
        /\ error = "ValueError: Please specify a valid dataset."
        /\ net = <<>>
        /\ history = <<>>

C6_Witness == FilterNamesNoKnownDataset /\ pc = "raised"

\* (di, fi) of a comes before (di, fi) of b
Before(a, b) == a.di < b.di \/ (a.di = b.di /\ a.fi < b.fi)

(* C7: download requests are sent in catalog order and, within an entry, in  *)
(* variant order; when a request is sent, every earlier event belongs to the *)
(* same or an earlier entry, every archive found earlier has been unzipped,  *)
(* and every earlier entry has been tidied up (outside a dry run, which      *)
(* neither unzips nor tidies up).                                            *)
C7_RequestsInCatalogOrder ==
    /\ \A i, j \in DownloadRequests : i < j => Before(net[i], net[j])
    /\ \A j \in Events("request") : \A i \in 1..(j - 1) :
          /\ history[i].di <= history[j].di
          /\ history[i].event = "tidy_up" => history[i].di < history[j].di
          /\ (history[i].event = "scrape" /\ history[i].ok /\ ~parse_args.dry_run) =>
                \E k \in (i + 1)..(j - 1) :
                    /\ history[k].event = "unzip"
                    /\ history[k].di = history[i].di
                    /\ history[k].fi = history[i].fi
          /\ (history[i].di < history[j].di /\ ~parse_args.dry_run) =>
                \E k \in i..(j - 1) :
                    /\ history[k].event = "tidy_up"
                    /\ history[k].di = history[i].di

C7_Witness ==
    /\ ~parse_args.dry_run
    /\ \E a, b, c \in Events("request") :
          /\ history[a].di = 1 /\ history[a].fi = 1
          /\ history[b].di = 1 /\ history[b].fi = 2
          /\ history[c].di = 2 /\ history[c].fi = 1
    /\ \E u \in Events("unzip") : history[u].di = 1 /\ history[u].ok

(* C8: a run that ends with a configuration error (a required option missing *)
(* or empty) has sent no request: no login-page GET, no login POST, no       *)
(* download request.                                                         *)
C8_ConfigurationErrorBeforeNetwork ==
    IsConfigurationError(error) => net = <<>>

\* The login POST response is a rejection: a status that is not success, or
\* the failure marker in the body.
LoginRejected(response) ==
    \/ response.status_code # 200
    \/ \E i \in 1..Len(response.text) :
          /\ i + Len(failed_login) - 1 <= Len(response.text)
          /\ SubSeq(response.text, i, i + Len(failed_login) - 1) = failed_login

(* C9: a rejected login POST (status not success, or the failure marker in   *)
(* the body) makes login() raise and ends the run; a download request is     *)
(* sent only after a login that succeeded.                                   *)
C9_NoDownloadWithoutLogin ==
    /\ DownloadRequests # {} => scraper.logged_in
    /\ (scraper # None /\ scraper.login_response # None
          /\ LoginRejected(scraper.login_response)) =>
            /\ pc = "raised"
            /\ error = "ValueError: Login failed, check username and password."
            /\ ~scraper.logged_in
            /\ DownloadRequests = {}

C9_Witness ==
    /\ scraper # None
    /\ scraper.login_response # None
    /\ scraper.login_response.status_code = 200
    /\ LoginRejected(scraper.login_response)
    /\ pc = "raised"

(* C10: a connection-level transport failure does not end the run: the       *)
(* resource is skipped and the batch goes on.                                *)
C10_TransportFailureDoesNotEndRun ==
    (RunEnded /\ Events("transport_failure") # {}) => error # "ConnectionError"

\* The last thing that happened is a fetch that returned this value.
FetchJustReturned(value) ==
    /\ history # <<>>
    /\ history[Len(history)].event = "scrape"
    /\ history[Len(history)].ok = value

(* C11: every step that unzips an archive, whether the extraction succeeds   *)
(* or fails on an unreadable payload, leaves no file at the archive's path,  *)
(* raises nothing and hands over to the next file pattern.                   *)
C11_ArchiveRemovedAfterUnzip ==
    [][(pc = "unzip" /\ pc' # "unzip") =>
          /\ url_handler.local_file_path \notin DOMAIN fs'.files
          /\ pc' = "for_file_pattern"
          /\ error' = ""]_vars

C11_Witness ==
    /\ pc = "for_file_pattern"
    /\ history # <<>>
    /\ history[Len(history)].event = "unzip"
    /\ ~history[Len(history)].ok
    /\ url_handler.local_file_path \notin DOMAIN fs.files

(* C12: once a fetch has returned false on the not-found marker, no file     *)
(* holding the chunks written before the marker remains at the destination   *)
(* path.                                                                     *)
C12_PartialOutputDiscarded ==
    FetchJustReturned(FALSE) =>
        \/ url_handler.local_file_path \notin DOMAIN fs.files
        \/ fs.files[url_handler.local_file_path] = <<>>

(* C13: no file handle opened by a fetch is still open once the fetch has    *)
(* returned or raised.                                                       *)
C13_HandleClosedAfterFetch ==
    (pc # "iter_content" /\ file_handle # None) => file_handle.closed

\* A step that is a call of throttle.wait().
WaitStep == pc = "for_dataset" /\ pc' = "check_dataset"

\* The time since the window was started, and what is left of the window.
Elapsed == now - throttle.period
Remaining == throttle.period_duration - Elapsed

\* The step starts a fresh window.
StartsFreshWindow ==
    /\ throttle'.num_chunks_in_period = 0
    /\ throttle'.period = now
    /\ throttle'.period # throttle.period

(* C14: a call of wait() resets units_consumed and moves window_start        *)
(* exactly when the window has elapsed: once for an elapsed window, and not  *)
(* again inside the window the reset has started.                            *)
C14_ResetOncePerElapsedWindow ==
    [][WaitStep =>
          (StartsFreshWindow <=> Elapsed > throttle.period_duration)]_vars

(* C17: a call of wait() made when more than window_duration has elapsed     *)
(* since window_start starts a fresh window, however long the elapsed time,  *)
(* more than 24 hours included.                                              *)
C17_FreshWindowAfterAnyElapsedTime ==
    [][(WaitStep /\ Remaining < 0) =>
          (throttle'.num_chunks_in_period = 0 /\ throttle'.period = now)]_vars

-----------------------------------------------------------------------------
(* URLHandler on its own: the locations it gives for a dataset and a file   *)
(* pattern, over names the catalogue and the file pattern list can hold.    *)

\* Names a catalogue line gives (its first 19 characters).
LocatorDatasets ==
    {"2014-05-06-12-54-54", "2014-05-14-13-46-12", "site-01", "site-01,cam,lidar",
     "runs/2014-05-06", "x"}

\* Lines of the file pattern list.
LocatorFilePatterns ==
    {"cam", "lidar", "stereo_left", "lidar/left", "gps.ins", ""}

\* Values of the option downloads_dir.
LocatorDownloadsDirs == {"/dl", "dl", "/data/robotcar"}

LocatorInit ==
    /\ pc = "locator"
    /\ parse_args \in {[BaseArgs EXCEPT !.downloads_dir = d] :
                          d \in LocatorDownloadsDirs}
    /\ datasets_file = <<>>
    /\ file_patterns_file = <<>>
    /\ datasets = None
    /\ file_patterns = None
    /\ scraper = None
    /\ throttle = None
    /\ now = 0
    /\ ticks = 0
    /\ di = 1
    /\ fi = 1
    /\ dataset_handler = None
    /\ zipper = None
    /\ url_handler = None
    /\ result = None
    /\ file_handle = None
    /\ fs = [dirs |-> {}, files |-> EmptyFiles]
    /\ error = ""
    /\ net = <<>>
    /\ sleeps = <<>>
    /\ history = <<>>

\* dataset_handler = DatasetHandler(parse_args, dataset)
NewDatasetHandler ==
    /\ pc = "locator"
    /\ dataset_handler = None
    /\ \E dataset \in LocatorDatasets :
          dataset_handler' = DatasetHandler(dataset)
    /\ UNCHANGED <<pc, parse_args, datasets_file, file_patterns_file, datasets,
                   file_patterns, scraper, throttle, now, ticks, di, fi, zipper,
                   url_handler, result, file_handle, fs, error, net, sleeps,
                   history>>

\* url_handler = URLHandler(dataset_handler, file_pattern)
NewURLHandler ==
    /\ pc = "locator"
    /\ dataset_handler # None
    /\ \E file_pattern \in LocatorFilePatterns :
          url_handler' = URLHandler(dataset_handler, file_pattern)
    /\ UNCHANGED <<pc, parse_args, datasets_file, file_patterns_file, datasets,
                   file_patterns, scraper, throttle, now, ticks, di, fi,
                   dataset_handler, zipper, result, file_handle, fs, error, net,
                   sleeps, history>>

LocatorNext == NewDatasetHandler \/ NewURLHandler

LocatorSpec == LocatorInit /\ [][LocatorNext]_vars

\* s ends with suffix.
EndsWith(s, suffix) ==
    Len(suffix) <= Len(s) /\ SubSeq(s, Len(s) - Len(suffix) + 1, Len(s)) = suffix

\* {resource_id}_{variant}.tar for the handlers held.
ArchiveName ==
    dataset_handler.dataset \o "_" \o url_handler.file_pattern \o file_extension

(* C15: for every dataset name and file pattern, file_url is                 *)
(* base_download_url, the name, "/", and {name}_{pattern}.tar, and           *)
(* local_file_path ends with {name}_{pattern}.tar.                           *)
C15_LocationsNameTheArchive ==
    url_handler # None =>
        /\ url_handler.file_url =
              base_download_url \o dataset_handler.dataset \o "/" \o ArchiveName
        /\ EndsWith(url_handler.local_file_path, ArchiveName)

\* The step in which scrape returns value to the main loop.
ScrapeReturns(value) ==
    /\ history' # history
    /\ history'[Len(history')].event = "scrape"
    /\ history'[Len(history')].ok = value

\* The main loop goes on to the next file pattern, with no error.
GoesOnToNextFilePattern ==
    pc' = "for_file_pattern" /\ fi' = fi + 1 /\ error' = ""

\* The main loop is about to unzip the file of the current file pattern.
GoesOnToUnzip == pc' = "unzip" /\ fi' = fi /\ url_handler' = url_handler

(* C16 as stated: zipper.unzip is called for a file exactly when scrape      *)
(* returned true for it; after a scrape that returned false there is no      *)
(* unzip and no error, and the loop goes on to the next file pattern.        *)
C16_UnzipExactlyWhenFound ==
    [][/\ ScrapeReturns(TRUE) => GoesOnToUnzip
       /\ ScrapeReturns(FALSE) => GoesOnToNextFilePattern
       /\ (pc # "unzip" /\ pc' = "unzip") => ScrapeReturns(TRUE)]_vars

(* C16 amended: outside a dry run, zipper.unzip is called for a file exactly *)
(* when scrape returned true for it; in a dry run scrape returns true and    *)
(* nothing is unzipped; after a scrape that returned false there is no unzip *)
(* and no error, and the loop goes on to the next file pattern.              *)
C16_UnzipExactlyWhenFoundOutsideDryRun ==
    [][/\ (ScrapeReturns(TRUE) /\ ~scraper.dry_run) => GoesOnToUnzip
       /\ (ScrapeReturns(TRUE) /\ scraper.dry_run) => GoesOnToNextFilePattern
       /\ ScrapeReturns(FALSE) => GoesOnToNextFilePattern
       /\ (pc # "unzip" /\ pc' = "unzip") =>
             (ScrapeReturns(TRUE) /\ ~scraper.dry_run)]_vars

\* One run holds a scrape that returned false, followed by the request for
\* the next file pattern, and a scrape that returned true, followed by its
\* unzip.
C16_Witness ==
    /\ \E i \in Events("scrape") :
          /\ ~history[i].ok
          /\ i < Len(history)
          /\ history[i + 1].event = "request"
          /\ history[i + 1].di = history[i].di
          /\ history[i + 1].fi = history[i].fi + 1
    /\ \E j \in Events("scrape") :
          /\ history[j].ok
          /\ j < Len(history)
          /\ history[j + 1].event = "unzip"
          /\ history[j + 1].di = history[j].di
          /\ history[j + 1].fi = history[j].fi

\* The step pauses the caller for the given number of seconds.
PausesFor(seconds) ==
    /\ Len(sleeps') = Len(sleeps) + 1
    /\ sleeps'[Len(sleeps')].seconds = seconds
    /\ now' = now + seconds

(* C18: a call of wait() made when the time left of the window is not        *)
(* negative pauses for exactly that time and leaves num_chunks_in_period and *)
(* period unchanged when num_chunks_in_period > chunks_per_period, and       *)
(* otherwise neither pauses nor changes the throttle.                        *)
C18_PausesForRemaining ==
    [][(WaitStep /\ Remaining >= 0) =>
          IF throttle.num_chunks_in_period > throttle.chunks_per_period
          THEN PausesFor(Remaining) /\ throttle' = throttle
          ELSE UNCHANGED <<throttle, now, sleeps>>]_vars

(* C19: num_chunks_in_period is never negative; a step sets it to 0 exactly  *)
(* when the step sets period to a new time; every other step leaves it       *)
(* unchanged or adds exactly one to it.                                      *)
C19_CountFollowsWindow ==
    [][throttle' # None =>
          /\ throttle'.num_chunks_in_period >= 0
          /\ IF throttle = None
             THEN throttle'.num_chunks_in_period = 0 /\ throttle'.period = now
             ELSE IF throttle'.period # throttle.period
             THEN throttle'.num_chunks_in_period = 0 /\ throttle'.period = now
             ELSE throttle'.num_chunks_in_period \in
                     {throttle.num_chunks_in_period,
                      throttle.num_chunks_in_period + 1}]_vars

\* A window in which chunks were counted has been followed by a fresh one.
C19_Witness ==
    /\ throttle # None
    /\ throttle.num_chunks_in_period = 0
    /\ throttle.period > 0
    /\ ~scraper.dry_run
    /\ \E i \in Events("scrape") : history[i].ok /\ history[i].chunks # <<>>

\* The step in which scrape gets a response whose status is not success.
GetsBadStatus ==
    /\ pc = "scrape"
    /\ net' # net
    /\ result' # None
    /\ result'.response.status_code # good_status_code

(* C20: when the response to a download request has a status other than     *)
(* success, scrape raises "bad file_url" with no local file opened or        *)
(* created and no chunk counted, and the run ends: no request follows.       *)
C20_BadStatusIsFatal ==
    [][/\ GetsBadStatus =>
             /\ pc' = "raised"
             /\ error' = "ValueError: bad file_url"
             /\ fs' = fs
             /\ file_handle' = file_handle
             /\ throttle' = throttle
       /\ error = "ValueError: bad file_url" => (net' = net /\ pc' = "raised")]_vars

\* A run ended by a response whose status is not success.
C20_Witness ==
    /\ pc = "raised"
    /\ error = "ValueError: bad file_url"
    /\ result.response.status_code # good_status_code
    /\ net[Len(net)].url = url_handler.file_url

\* The step in which the main loop leaves the body for the current dataset,
\* all its file patterns done.
LeavesDataset == pc \in {"for_file_pattern", "tidy_up"} /\ pc' = "for_dataset"

\* The tidy_up events of the current dataset in a history.
TidyUpsOf(h) == {i \in DOMAIN h : h[i].event = "tidy_up" /\ h[i].di = di}

\* The files tar.extractall has put below the dataset's directory.
ExtractedFiles(f) ==
    {p \in DOMAIN f.files :
        Under(p, dataset_handler.dataset_dir) /\ f.files[p] = <<"data">>}

\* tidy_up is called once for a dataset, after its last file pattern.
TidyUpOncePerDataset ==
    LeavesDataset =>
        /\ Cardinality(TidyUpsOf(history')) = 1
        /\ history'[Len(history')].event = "tidy_up"

\* num_successful_unzipped starts at 0 and grows by one on each extraction
\* that succeeds, and not otherwise.
CountsValidExtractions ==
    /\ (pc = "check_dataset" /\ pc' = "for_file_pattern") =>
           zipper'.num_successful_unzipped = 0
    /\ (pc = "unzip" /\ pc' # "unzip") =>
           zipper'.num_successful_unzipped =
              zipper.num_successful_unzipped +
                 (IF IsTarArchive(fs.files[url_handler.local_file_path])
                  THEN 1 ELSE 0)
    /\ (pc \notin {"check_dataset", "unzip"}) => zipper' = zipper

\* The call of tidy_up removes the dataset's directory when nothing was
\* extracted, and keeps it with every extracted file otherwise.
PrunesOrKeeps ==
    (pc = "tidy_up" /\ pc' # "tidy_up") =>
        IF zipper.num_successful_unzipped = 0
        THEN ~Exists(fs', dataset_handler.dataset_dir)
        ELSE /\ Exists(fs', dataset_handler.dataset_dir)
             /\ Cardinality(ExtractedFiles(fs')) = Cardinality(ExtractedFiles(fs))

(* C21: tidy_up is called exactly once for each dataset that is processed,   *)
(* after its last file pattern; num_successful_unzipped starts at 0 for each *)
(* dataset and grows by one exactly on each valid extraction; tidy_up        *)
(* removes the dataset's directory when the count is 0 and keeps it, with    *)
(* the extracted data, when the count is greater than 0.                     *)
C21_TidyUpOncePrunesOrKeeps ==
    [][TidyUpOncePerDataset /\ CountsValidExtractions /\ PrunesOrKeeps]_vars

\* A scrape has returned false, or an unzip has failed on its archive.
SoftFailure ==
    \E i \in DOMAIN history :
        history[i].event \in {"scrape", "unzip"} /\ ~history[i].ok

\* Every pair of a dataset and a file pattern that passes the two filters
\* has been requested.
AllWantedRequested ==
    \A d \in DOMAIN datasets.datasets, f \in DOMAIN file_patterns.file_patterns :
        (Datasets_check(datasets.datasets[d])
            /\ FilePatterns_check(file_patterns.file_patterns[f]))
        => \E i \in DownloadRequests : net[i].di = d /\ net[i].fi = f

(* C22: after a scrape that returned false or an unzip that failed on a      *)
(* malformed archive, every file pattern and dataset that passes the filters *)
(* is requested and the run reaches its normal end: a run in which one of    *)
(* the two has happened ends in no other way.                                *)
C22_RunContinuesToNormalEnd ==
    (SoftFailure /\ RunEnded) => (pc = "finished" /\ AllWantedRequested)

\* The pair of a dataset and a file pattern passes the two filters.
Wanted(d, f) ==
    /\ Datasets_check(datasets.datasets[d])
    /\ FilePatterns_check(file_patterns.file_patterns[f])

\* The download requests sent are the first pairs that pass the filters, in
\* the order of the catalogue and of the file pattern list, one request for
\* each, none left out, each for the URL of its pair.
RequestsFollowThePlan ==
    \A i \in DownloadRequests :
        /\ Wanted(net[i].di, net[i].fi)
        /\ net[i].url =
              ResourceUrl(datasets.datasets[net[i].di],
                          file_patterns.file_patterns[net[i].fi])
        /\ \A j \in DownloadRequests : j < i => Before(net[j], net[i])
        /\ \A d \in DOMAIN datasets.datasets,
              f \in DOMAIN file_patterns.file_patterns :
              (Wanted(d, f) /\ Before([di |-> d, fi |-> f], net[i])) =>
                  \E j \in DownloadRequests :
                      j < i /\ net[j].di = d /\ net[j].fi = f

\* The step in which scrape gets a response whose status is success.
GetsGoodStatus ==
    /\ pc = "scrape"
    /\ net' # net
    /\ error' # "ConnectionError"
    /\ result'.response.status_code = good_status_code

(* C23: a dry run sends the download requests of a normal run, in the same   *)
(* order: in both, the requests sent are the pairs that pass the filters, in *)
(* order and none left out, and a dry run goes on to the next one after      *)
(* every response with success status and reaches every pair when it ends    *)
(* normally.  A dry run creates, writes and removes no local file or         *)
(* directory, never unzips and never tidies up, and its count of chunks      *)
(* stays 0.                                                                  *)
C23_DryRunOnlyRequests ==
    [][/\ RequestsFollowThePlan'
       /\ parse_args.dry_run =>
             /\ fs' = fs
             /\ file_handle' = None
             /\ pc' \notin {"iter_content", "unzip", "tidy_up"}
             /\ throttle' # None => throttle'.num_chunks_in_period = 0
             /\ GetsGoodStatus => GoesOnToNextFilePattern
             /\ pc' = "finished" => AllWantedRequested']_vars

\* A dry run that has ended normally after more than one download request.
C23_Witness ==
    /\ parse_args.dry_run
    /\ pc = "finished"
    /\ Cardinality(DownloadRequests) > 1
    /\ Events("scrape") # {}

-----------------------------------------------------------------------------
(* Runs over a catalogue that names one dataset twice: the second entry      *)
(* finds the directory the first one has left.                               *)

RepeatedCatalog == <<"2014-05-06-12-54-54,cam\n", "2014-05-06-12-54-54,cam\n">>

OverwriteInit ==
    /\ pc = "Datasets"
    /\ parse_args \in {[BaseArgs EXCEPT !.dry_run = r] : r \in BOOLEAN}
    /\ datasets_file = RepeatedCatalog
    /\ file_patterns_file \in PatternFiles
    /\ datasets = None
    /\ file_patterns = None
    /\ scraper = None
    /\ throttle = None
    /\ now = 0
    /\ ticks = 0
    /\ di = 1
    /\ fi = 1
    /\ dataset_handler = None
    /\ zipper = None
    /\ url_handler = None
    /\ result = None
    /\ file_handle = None
    /\ fs \in InitialFileSystems
    /\ error = ""
    /\ net = <<>>
    /\ sleeps = <<>>
    /\ history = <<>>

OverwriteSpec == OverwriteInit /\ [][Next]_vars

\* The paths at or below directory d.
Content(f, d) == {p \in f.dirs \cup DOMAIN f.files : Under(p, d)}

(* C24: in a run that is not a dry run, the step that sets up a dataset      *)
(* whose directory exists leaves the directory empty, before any request for *)
(* that dataset is sent; and the tidy-up of a dataset for which nothing was  *)
(* extracted leaves neither the directory nor anything below it.             *)
C24_ExistingDataRemoved ==
    [][/\ (pc = "check_dataset" /\ pc' = "for_file_pattern" /\ ~scraper.dry_run) =>
             /\ Content(fs', dataset_handler'.dataset_dir) =
                   {dataset_handler'.dataset_dir}
             /\ \A i \in DownloadRequests : net'[i].di < di
             /\ net' = net
       /\ (pc = "tidy_up" /\ pc' = "for_dataset"
              /\ zipper.num_successful_unzipped = 0) =>
             Content(fs', dataset_handler.dataset_dir) = {}]_vars

\* The first entry has extracted data into the dataset's directory, the
\* second entry for the same dataset has found nothing, and the directory is
\* gone.
C24_Witness ==
    /\ pc = "for_dataset"
    /\ di = 3
    /\ datasets.datasets[1] = datasets.datasets[2]
    /\ \E i \in Events("unzip") : history[i].ok /\ history[i].di = 1
    /\ \E i \in Events("tidy_up") : history[i].di = 1
    /\ history[Len(history)].event = "tidy_up"
    /\ history[Len(history)].di = 2
    /\ zipper.num_successful_unzipped = 0
    /\ ~Exists(fs, dataset_handler.dataset_dir)

\* The pause of a call of wait(), if it pauses: one sleep, of a time that is
\* not negative and not longer than the window.
PausesOnceWithinWindow ==
    WaitStep =>
        \/ UNCHANGED <<sleeps, now>>
        \/ /\ Len(sleeps') = Len(sleeps) + 1
           /\ SubSeq(sleeps', 1, Len(sleeps)) = sleeps
           /\ sleeps'[Len(sleeps')].seconds >= 0
           /\ sleeps'[Len(sleeps')].seconds <= throttle.period_duration
           /\ now' = now + sleeps'[Len(sleeps')].seconds

(* C25: every run ends, normally or with an error; a call of wait() pauses   *)
(* at most once, for a time that is not negative and not longer than         *)
(* period_duration.                                                          *)
C25_TerminatesWithBoundedPauses ==
    <>RunEnded /\ [][PausesOnceWithinWindow]_vars

\* A run that has paused in wait() and has reached its normal end.
C25_Witness == pc = "finished" /\ sleeps # <<>>

====
